---- MODULE Spec2Model ----
(***************************************************************************)
(* Backtester (src/src/cpp/backtester.cpp) and PerformanceMetrics          *)
(* (src/src/cpp/performance_metrics.cpp) of SharpEdge-Quant.               *)
(*                                                                         *)
(* Numbers.  The C++ doubles are modelled by exact arithmetic:             *)
(*   - a price is a whole number of currency units;                        *)
(*   - m_slippage is s / SlipScale, s a natural number;                    *)
(*   - every amount of money (cash, equity, execution price, trade value)  *)
(*     is a whole number of 1/SlipScale currency units, which is closed    *)
(*     under every operation runBacktest performs on money;                *)
(*   - m_latency is L / 20 seconds, L a natural number;                    *)
(*   - a quotient (drawdown, return, final return) is a fraction <<n, d>>  *)
(*     in lowest terms with d > 0; <<1, 0>>, <<-1, 0>> and <<0, 0>> stand  *)
(*     for the IEEE results +inf, -inf and NaN of a division by zero;      *)
(*   - a Sharpe ratio, sign * sqrt(q), is the record [sign, sq |-> q].     *)
(* Share counts are assumed to fit the C++ int.                            *)
(* Indices and latency steps are assumed to fit size_t without wrapping.   *)
(***************************************************************************)
EXTENDS Integers, Sequences, FiniteSets, TLC

VARIABLES
    m_initialCapital,   \* money
    m_cash,             \* money
    m_position,         \* shares
    m_slippage,         \* in 1/SlipScale
    m_latency,          \* in 1/20 s
    m_signals,          \* sequence of Signal
    m_equity,           \* sequence of EquityPoint
    m_trades,           \* sequence of Trade
    m_drawdowns,        \* sequence of fractions (percent)
    m_returns,          \* sequence of fractions
    fs,                 \* which directory of CSV files the object reads from
    lastCall,           \* history: the last member function called and what it returned
    runCount,           \* history: runBacktest calls since the last load that opened
    trace               \* history: the locals of runBacktest after each iteration

vars == <<m_initialCapital, m_cash, m_position, m_slippage, m_latency, m_signals,
          m_equity, m_trades, m_drawdowns, m_returns, fs, lastCall,
          runCount, trace>>

----------------------------------------------------------------------------
(* Bounds of the model *)

MaxLen == 3
MaxReturns == 3
MaxRuns == 2
MaxSlip == 3
SlipScale == 2
GridCapital == 3

GridPrices == {1, 2}
GridSignals == {0, 1, 2}
GridLatencies == {0, 1, 2, 4}

ScenarioPrices == <<100, 100, 110, 110, 90>>
ScenarioCapitals == {50, 100, 10000}

----------------------------------------------------------------------------
(* Arithmetic *)

Abs(x) == IF x < 0 THEN -x ELSE x

Sign(x) == IF x > 0 THEN 1 ELSE IF x < 0 THEN -1 ELSE 0

Min(a, b) == IF a < b THEN a ELSE b

RECURSIVE GCD(_, _)
GCD(a, b) == IF b = 0 THEN a ELSE GCD(b, a % b)

\* The double n / d.
Frac(n, d) ==
    IF d = 0 THEN <<Sign(n), 0>>
    ELSE IF n = 0 THEN <<0, 1>>
    ELSE LET g == GCD(Abs(n), Abs(d))
         IN  <<(Sign(d) * n) \div g, Abs(d) \div g>>

Zero == <<0, 1>>

IsFinite(x) == x[2] # 0

IsNaN(x) == x = <<0, 0>>

\* a < b on doubles: false as soon as one side is NaN.
Less(a, b) ==
    IF IsNaN(a) \/ IsNaN(b) THEN FALSE
    ELSE IF ~IsFinite(a) THEN a[1] < 0 /\ b # a
    ELSE IF ~IsFinite(b) THEN b[1] > 0
    ELSE a[1] * b[2] < b[1] * a[2]

\* a + b and a * b on finite fractions.
Add(a, b) ==
    LET g == GCD(a[2], b[2])
    IN  Frac(a[1] * (b[2] \div g) + b[1] * (a[2] \div g), (a[2] \div g) * b[2])

Mul(a, b) ==
    LET g1 == GCD(Abs(a[1]), b[2])
        g2 == GCD(Abs(b[1]), a[2])
        h1 == IF g1 = 0 THEN 1 ELSE g1
        h2 == IF g2 = 0 THEN 1 ELSE g2
    IN  Frac((a[1] \div h1) * (b[1] \div h2), (a[2] \div h2) * (b[2] \div h1))

\* static_cast<int>(a / b) for b > 0: truncation toward zero.
TruncDiv(a, b) == IF a >= 0 THEN a \div b ELSE -((-a) \div b)

\* std::max(a, b) on doubles: (a < b) ? b : a.
StdMax(a, b) == IF Less(a, b) THEN b ELSE a

----------------------------------------------------------------------------
(* Extended arithmetic on doubles that may be +inf, -inf or NaN *)

NaN == <<0, 0>>

Neg(a) == <<-a[1], a[2]>>

AddX(a, b) ==
    IF IsNaN(a) \/ IsNaN(b) THEN NaN
    ELSE IF ~IsFinite(a) /\ ~IsFinite(b) THEN (IF a = b THEN a ELSE NaN)
    ELSE IF ~IsFinite(a) THEN a
    ELSE IF ~IsFinite(b) THEN b
    ELSE Add(a, b)

MulX(a, b) ==
    IF IsNaN(a) \/ IsNaN(b) THEN NaN
    ELSE IF IsFinite(a) /\ IsFinite(b) THEN Mul(a, b)
    ELSE IF a[1] = 0 \/ b[1] = 0 THEN NaN
    ELSE <<Sign(a[1]) * Sign(b[1]), 0>>

\* a / n for a count n > 0.
DivN(a, n) == IF IsFinite(a) THEN Mul(a, <<1, n>>) ELSE a

RECURSIVE SumX(_)
SumX(xs) == IF xs = <<>> THEN Zero ELSE AddX(SumX(SubSeq(xs, 1, Len(xs) - 1)), xs[Len(xs)])

RECURSIVE SumSqX(_)
SumSqX(xs) ==
    IF xs = <<>> THEN Zero
    ELSE AddX(SumSqX(SubSeq(xs, 1, Len(xs) - 1)), MulX(xs[Len(xs)], xs[Len(xs)]))

----------------------------------------------------------------------------
(* CSV files.  A line is [ok, price, signal, numeric]: ok is FALSE when      *)
(* std::stod or std::stoi throws on it, price and signal are what they      *)
(* return otherwise, and numeric tells whether the price and signal fields  *)
(* are numbers from their first to their last character.  The timestamp     *)
(* column of a line is modelled by the line's number in its file.           *)

\* A line such as "t,2,1".
Line(p, s) == [ok |-> TRUE, price |-> p, signal |-> s, numeric |-> TRUE]

\* A line such as "timestamp,price,signal" or "t,abc,1": std::stod or std::stoi
\* finds no number at the start of its field and throws.
BadLine == [ok |-> FALSE, price |-> 0, signal |-> 0, numeric |-> FALSE]

\* A line such as "t,2abc,1" or "t,2,1.5": std::stod and std::stoi convert the
\* longest numeric prefix of their field and ignore the rest.
JunkLine(p, s) == [ok |-> TRUE, price |-> p, signal |-> s, numeric |-> FALSE]

\* The lines of the files of directory "mixed".
MixedLines == {BadLine, Line(1, 1), JunkLine(2, 0)}

GridRows == {Line(p, s) : p \in GridPrices, s \in GridSignals}

\* The files of a directory that hold at most maxRows lines after the header.
Files(dir, maxRows) ==
    IF dir = "grid"
    THEN UNION {{<<BadLine>> \o rows : rows \in [1..n -> GridRows]} :
                    n \in 0..Min(MaxLen, maxRows)}
    ELSE IF dir = "mixed"
    THEN UNION {[1..n -> MixedLines] : n \in 0..(1 + Min(MaxLen, maxRows))}
    ELSE {<<BadLine>>} \cup
         (IF maxRows < Len(ScenarioPrices) THEN {}
          ELSE {<<BadLine>> \o [i \in 1..Len(ScenarioPrices) |-> Line(ScenarioPrices[i], sg[i])] :
                    sg \in [1..Len(ScenarioPrices) -> GridSignals]})

\* The loop of loadSignalsFromCSV from line k on: a line that parses appends
\* a Signal, a line that throws is skipped.
RECURSIVE ParseFrom(_, _)
ParseFrom(lines, k) ==
    IF k > Len(lines) THEN <<>>
    ELSE (IF lines[k].ok
          THEN <<[timestamp |-> k, price |-> lines[k].price, signal |-> lines[k].signal]>>
          ELSE <<>>) \o ParseFrom(lines, k + 1)

\* The first std::getline reads the header; the loop starts at the second line.
FirstDataLine == 2

----------------------------------------------------------------------------
(* Backtester *)

\* Backtester::Backtester(initialCapital, slippage, latency)
Backtester(initialCapital, slippage, latency) ==
    [m_initialCapital |-> initialCapital, m_cash |-> initialCapital, m_position |-> 0,
     m_slippage |-> slippage, m_latency |-> latency,
     m_signals |-> <<>>, m_equity |-> <<>>, m_trades |-> <<>>,
     m_drawdowns |-> <<>>, m_returns |-> <<>>, trace |-> <<>>]

\* loadSignalsFromCSV on a file that opens.
LoadSignals(b, lines) ==
    [b EXCEPT !.m_signals = ParseFrom(lines, FirstDataLine),
              !.m_equity = <<>>,
              !.m_drawdowns = <<>>,
              !.m_cash = b.m_initialCapital,
              !.m_position = 0,
              !.trace = <<>>]

\* static_cast<size_t>(m_latency * 10), m_latency being L / 20 seconds.
LatencySteps(L) == (L * 10) \div 20

\* PriceIndex when the price of the next record is read whatever m_latency is.
PriceIndexOfNextRecord(n, L, i) == Min(i + 1, n)

\* The index whose price is the base price of a transition at index i.
PriceIndex(n, L, i) == IF L > 0 THEN Min(i + LatencySteps(L), n) ELSE i

\* EffectivePrice with the two signs of the slippage exchanged.
EffectivePriceInFavour(base, sig, s) ==
    IF sig = 1 THEN base * (SlipScale - s) ELSE base * (SlipScale + s)

\* The execution price, in money, of a transition to signal sig at base
\* price base: base * (1 + m_slippage) for a buy, base * (1 - m_slippage)
\* otherwise.
EffectivePrice(base, sig, s) ==
    IF sig = 1 THEN base * (SlipScale + s) ELSE base * (SlipScale - s)

\* IsBuy without its test of the position.
IsBuyAnyPosition(sig, position) == sig = 1

IsBuy(sig, position) == sig = 1 /\ position = 0

IsSell(sig, position) == sig = 0 /\ position > 0

\* Shares when the quotient is rounded to the nearest integer.
SharesRoundedToNearest(cash, effectivePrice) ==
    TruncDiv(2 * cash + effectivePrice, 2 * effectivePrice)

\* Shares when the quotient is rounded up.
SharesRoundedUp(cash, effectivePrice) == TruncDiv(cash + effectivePrice - 1, effectivePrice)

\* static_cast<int>(m_cash / effectivePrice)
Shares(cash, effectivePrice) == TruncDiv(cash, effectivePrice)

\* SignalAfter without the assignment currentSignal = signal.signal.
SignalAfterKept(currentSignal, sig, traded) == currentSignal

\* SignalAfter when only an executed trade updates currentSignal.
SignalAfterTrade(currentSignal, sig, traded) == IF traded THEN sig ELSE currentSignal

\* currentSignal after a record whose signal differs from it.
SignalAfter(currentSignal, sig, traded) == sig

\* Equity without the position's value.
EquityCashOnly(cash, position, price) == cash

\* Mark to market at the record's own price.
Equity(cash, position, price) ==
    IF position > 0 THEN cash + position * price * SlipScale ELSE cash

\* HighWaterMark without std::max.
LastEquityAsMark(highWaterMark, equity) == equity

HighWaterMark(highWaterMark, equity) == IF highWaterMark < equity THEN equity ELSE highWaterMark

Drawdown(highWaterMark, equity) == Frac((highWaterMark - equity) * 100, highWaterMark)

DailyReturn(equity, lastEquity) == Frac(equity - lastEquity, lastEquity)

\* ResetForRun without m_trades.clear().
ResetKeepingTrades(b) ==
    [m_cash |-> b.m_initialCapital, m_position |-> 0,
     m_equity |-> <<>>, m_trades |-> b.m_trades, m_drawdowns |-> <<>>,
     m_returns |-> b.m_returns,
     lastEquity |-> b.m_initialCapital, highWaterMark |-> b.m_initialCapital,
     currentSignal |-> 0, trace |-> <<>>]

\* ResetForRun without m_cash = m_initialCapital.
ResetKeepingCash(b) ==
    [m_cash |-> b.m_cash, m_position |-> 0,
     m_equity |-> <<>>, m_trades |-> <<>>, m_drawdowns |-> <<>>,
     m_returns |-> b.m_returns,
     lastEquity |-> b.m_initialCapital, highWaterMark |-> b.m_initialCapital,
     currentSignal |-> 0, trace |-> <<>>]

\* The assignments at the head of runBacktest; lastEquity, highWaterMark and
\* currentSignal are its locals.  m_returns is not among the vectors cleared.
ResetForRun(b) ==
    [m_cash |-> b.m_initialCapital, m_position |-> 0,
     m_equity |-> <<>>, m_trades |-> <<>>, m_drawdowns |-> <<>>,
     m_returns |-> b.m_returns,
     lastEquity |-> b.m_initialCapital, highWaterMark |-> b.m_initialCapital,
     currentSignal |-> 0, trace |-> <<>>]

\* One iteration of the loop of runBacktest, on record i of sigs.
Step(r, sigs, s, L, i) ==
    LET signal == sigs[i]
        changed == signal.signal # r.currentSignal
        idx == PriceIndex(Len(sigs), L, i)
        effectivePrice == EffectivePrice(sigs[idx].price, signal.signal, s)
        buy == changed /\ IsBuy(signal.signal, r.m_position)
        shares == IF buy THEN Shares(r.m_cash, effectivePrice) ELSE 0
        bought == buy /\ shares > 0
        sold == changed /\ ~buy /\ IsSell(signal.signal, r.m_position)
        proceeds == r.m_position * effectivePrice
        cash == IF bought THEN r.m_cash - shares * effectivePrice
                ELSE IF sold THEN r.m_cash + proceeds
                ELSE r.m_cash
        position == IF bought THEN shares ELSE IF sold THEN 0 ELSE r.m_position
        trades == IF bought
                  THEN Append(r.m_trades,
                              [timestamp |-> signal.timestamp, action |-> "BUY",
                               shares |-> shares, price |-> effectivePrice,
                               value |-> shares * effectivePrice])
                  ELSE IF sold
                  THEN Append(r.m_trades,
                              [timestamp |-> signal.timestamp, action |-> "SELL",
                               shares |-> r.m_position, price |-> effectivePrice,
                               value |-> proceeds])
                  ELSE r.m_trades
        currentSignal == IF changed
                         THEN SignalAfter(r.currentSignal, signal.signal, bought \/ sold)
                         ELSE r.currentSignal
        equity == Equity(cash, position, signal.price)
        highWaterMark == HighWaterMark(r.highWaterMark, equity)
    IN  [m_cash |-> cash, m_position |-> position,
         m_equity |-> Append(r.m_equity, [timestamp |-> signal.timestamp, equity |-> equity]),
         m_trades |-> trades,
         m_drawdowns |-> Append(r.m_drawdowns, Drawdown(highWaterMark, equity)),
         m_returns |-> Append(r.m_returns, DailyReturn(equity, r.lastEquity)),
         lastEquity |-> equity, highWaterMark |-> highWaterMark,
         currentSignal |-> currentSignal,
         trace |-> Append(r.trace,
                          [cash |-> cash, position |-> position,
                           highWaterMark |-> highWaterMark,
                           currentSignal |-> currentSignal,
                           changed |-> changed, priceIndex |-> idx,
                           effectivePrice |-> IF changed THEN effectivePrice ELSE 0,
                           buyAttempt |-> buy, shares |-> shares,
                           traded |-> bought \/ sold])]

RECURSIVE Loop(_, _, _, _, _)
Loop(r, sigs, s, L, i) ==
    IF i > Len(sigs) THEN r ELSE Loop(Step(r, sigs, s, L, i), sigs, s, L, i + 1)

\* runBacktest on a Backtester whose m_signals is not empty.
RunBacktest(b) ==
    LET r == Loop(ResetForRun(b), b.m_signals, b.m_slippage, b.m_latency, 1)
    IN  [b EXCEPT !.m_cash = r.m_cash, !.m_position = r.m_position,
                  !.m_equity = r.m_equity, !.m_trades = r.m_trades,
                  !.m_drawdowns = r.m_drawdowns, !.m_returns = r.m_returns,
                  !.trace = r.trace]

\* *std::max_element(first, last)
RECURSIVE MaxElement(_)
MaxElement(xs) ==
    IF Len(xs) = 1 THEN xs[1]
    ELSE LET m == MaxElement(SubSeq(xs, 1, Len(xs) - 1))
         IN  IF Less(m, xs[Len(xs)]) THEN xs[Len(xs)] ELSE m

ZeroSharpe == [sign |-> 0, sq |-> Zero]

\* The Sharpe ratio of getResults: (meanReturn * 252) / (stdDev * sqrt(252))
\* when stdDev > 0, else 0; stdDev is the square root of variance below.
SharpeOfReturns(returns) ==
    LET n == Len(returns)
        meanReturn == DivN(SumX(returns), n)
        variance == AddX(DivN(SumSqX(returns), n), Neg(MulX(meanReturn, meanReturn)))
    IN  IF IsFinite(variance) /\ Less(Zero, variance)
        THEN [sign |-> Sign(meanReturn[1]),
              sq |-> Mul(Mul(<<252, 1>>, Mul(meanReturn, meanReturn)),
                         <<variance[2], variance[1]>>)]
        ELSE ZeroSharpe

DefaultResults ==
    [finalEquity |-> 0, finalReturn |-> Zero, maxDrawdown |-> Zero,
     sharpeRatio |-> ZeroSharpe, totalTrades |-> 0]

\* EmptyResults when totalTrades is set before the test of m_equity.
EmptyResultsWithTrades(b) == [DefaultResults EXCEPT !.totalTrades = Len(b.m_trades)]

\* What getResults returns when m_equity is empty.
EmptyResults(b) == DefaultResults

\* Backtester::getResults
getResults(b) ==
    IF b.m_equity = <<>> THEN EmptyResults(b)
    ELSE LET finalEquity == b.m_equity[Len(b.m_equity)].equity
         IN  [finalEquity |-> finalEquity,
              finalReturn |-> Frac((finalEquity - b.m_initialCapital) * 100, b.m_initialCapital),
              maxDrawdown |-> MaxElement(b.m_drawdowns),
              sharpeRatio |-> SharpeOfReturns(b.m_returns),
              totalTrades |-> Len(b.m_trades)]

----------------------------------------------------------------------------
(* PerformanceMetrics *)

\* The peak the loop of calculateMaxDrawdown holds after reading value.
Peak(peak, value) == IF value > peak THEN value ELSE peak

RECURSIVE MaxDrawdownLoop(_, _, _, _)
MaxDrawdownLoop(values, k, peak, maxDrawdown) ==
    IF k > Len(values) THEN maxDrawdown
    ELSE LET p == Peak(peak, values[k])
             drawdown == Frac((p - values[k]) * 100, p)
         IN  MaxDrawdownLoop(values, k + 1, p, StdMax(maxDrawdown, drawdown))

\* PerformanceMetrics::calculateMaxDrawdown
calculateMaxDrawdown(equityValues) ==
    IF equityValues = <<>> THEN Zero
    ELSE MaxDrawdownLoop(equityValues, 1, equityValues[1], Zero)

\* The equity values calculateAllMetrics extracts from the equity points.
EquityValues(equity) == [k \in 1..Len(equity) |-> equity[k].equity]

----------------------------------------------------------------------------
(* PerformanceMetrics on rounded doubles.  The ratio functions test a computed *)
(* standard deviation against 0.0, so what they return depends on how each    *)
(* operation rounds.  Here a double is a fraction whose significand has       *)
(* MantissaBits bits (53 in IEEE 754 binary64), every operation rounds its    *)
(* exact result to the nearest such number, ties to even; the exponent is     *)
(* unbounded (no overflow, no underflow).  std::sqrt and the operations on    *)
(* its result are kept exact, a ratio being sign * sqrt(sq) as above.         *)

MantissaBits == 4

RECURSIVE Pow2(_)
Pow2(k) == IF k = 0 THEN 1 ELSE 2 * Pow2(k - 1)

\* a / d rounded to the nearest integer, ties to even.
RoundHalfEven(a, d) ==
    LET q == a \div d
        r == a % d
    IN  IF 2 * r < d THEN q
        ELSE IF 2 * r > d THEN q + 1
        ELSE IF q % 2 = 0 THEN q ELSE q + 1

\* a / d > 0 rounded to MantissaBits significant bits.
RECURSIVE RoundPositive(_, _)
RoundPositive(a, d) ==
    IF a < Pow2(MantissaBits - 1) * d
    THEN LET h == RoundPositive(2 * a, d) IN Frac(h[1], 2 * h[2])
    ELSE IF a >= Pow2(MantissaBits) * d
    THEN LET h == RoundPositive(a, 2 * d) IN Frac(2 * h[1], h[2])
    ELSE Frac(RoundHalfEven(a, d), 1)

\* The double nearest to x.
RoundToDouble(x) ==
    IF ~IsFinite(x) \/ x[1] = 0 THEN x
    ELSE LET h == RoundPositive(Abs(x[1]), x[2]) IN <<Sign(x[1]) * h[1], h[2]>>

\* a / b on doubles that may be +inf, -inf or NaN, before rounding.
DivX(a, b) ==
    IF IsNaN(a) \/ IsNaN(b) THEN NaN
    ELSE IF ~IsFinite(a) /\ ~IsFinite(b) THEN NaN
    ELSE IF ~IsFinite(b) THEN Zero
    ELSE IF b[1] = 0 THEN <<Sign(a[1]), 0>>
    ELSE MulX(a, <<Sign(b[1]) * b[2], Abs(b[1])>>)

\* The double operations +, -, *, /.
FAdd(a, b) == RoundToDouble(AddX(a, b))

FSub(a, b) == RoundToDouble(AddX(a, Neg(b)))

FMul(a, b) == RoundToDouble(MulX(a, b))

FDiv(a, b) == RoundToDouble(DivX(a, b))

\* std::accumulate(returns.begin(), returns.end(), 0.0)
RECURSIVE Accumulate(_)
Accumulate(xs) ==
    IF xs = <<>> THEN Zero ELSE FAdd(Accumulate(SubSeq(xs, 1, Len(xs) - 1)), xs[Len(xs)])

\* The sum of (ret - mean) * (ret - mean) over returns, as its loop adds it up.
RECURSIVE SquaredDeviations(_, _)
SquaredDeviations(xs, mean) ==
    IF xs = <<>> THEN Zero
    ELSE FAdd(SquaredDeviations(SubSeq(xs, 1, Len(xs) - 1), mean),
              FMul(FSub(xs[Len(xs)], mean), FSub(xs[Len(xs)], mean)))

\* The sum of ret * ret over returns, as a loop adds it up.
RECURSIVE SquaredSum(_)
SquaredSum(xs) ==
    IF xs = <<>> THEN Zero
    ELSE FAdd(SquaredSum(SubSeq(xs, 1, Len(xs) - 1)), FMul(xs[Len(xs)], xs[Len(xs)]))

\* sum / returns.size()
Mean(returns) == FDiv(Accumulate(returns), <<Len(returns), 1>>)

\* mean - riskFreeRate / 252.0
Excess(returns, riskFreeRate) == FSub(Mean(returns), FDiv(riskFreeRate, <<252, 1>>))

\* The square of stdDev in calculateSharpeRatio.
SharpeDivisorSquared(returns) ==
    FDiv(SquaredDeviations(returns, Mean(returns)), <<Len(returns), 1>>)

\* The returns that calculateSortinoRatio counts as downside.
Downside(returns) == SelectSeq(returns, LAMBDA ret : Less(ret, Zero))

\* The square of downsideDeviation in calculateSortinoRatio.
SortinoDivisorSquared(returns) ==
    FDiv(SquaredSum(Downside(returns)), <<Len(Downside(returns)), 1>>)

\* excess / sqrt(divisorSquared) * sqrt(252.0)
AnnualizedRatio(excess, divisorSquared) ==
    [sign |-> Sign(excess[1]),
     sq |-> DivX(MulX(<<252, 1>>, MulX(excess, excess)), divisorSquared)]

\* PerformanceMetrics::calculateSharpeRatio
calculateSharpeRatio(returns, riskFreeRate) ==
    IF returns = <<>> THEN ZeroSharpe
    ELSE IF SharpeDivisorSquared(returns) = Zero THEN ZeroSharpe
    ELSE AnnualizedRatio(Excess(returns, riskFreeRate), SharpeDivisorSquared(returns))

\* PerformanceMetrics::calculateSortinoRatio
calculateSortinoRatio(returns, riskFreeRate) ==
    IF returns = <<>> THEN ZeroSharpe
    ELSE IF Len(Downside(returns)) = 0 THEN ZeroSharpe
    ELSE AnnualizedRatio(Excess(returns, riskFreeRate), SortinoDivisorSquared(returns))

----------------------------------------------------------------------------
(* The state machine: one Backtester object and the calls made on it *)

Self ==
    [m_initialCapital |-> m_initialCapital, m_cash |-> m_cash, m_position |-> m_position,
     m_slippage |-> m_slippage, m_latency |-> m_latency,
     m_signals |-> m_signals, m_equity |-> m_equity, m_trades |-> m_trades,
     m_drawdowns |-> m_drawdowns, m_returns |-> m_returns, trace |-> trace]

Becomes(b) ==
    /\ m_initialCapital' = b.m_initialCapital
    /\ m_cash' = b.m_cash
    /\ m_position' = b.m_position
    /\ m_slippage' = b.m_slippage
    /\ m_latency' = b.m_latency
    /\ m_signals' = b.m_signals
    /\ m_equity' = b.m_equity
    /\ m_trades' = b.m_trades
    /\ m_drawdowns' = b.m_drawdowns
    /\ m_returns' = b.m_returns
    /\ trace' = b.trace

\* A call of member function fn that returned ret (TRUE for a void function).
Call(fn, ret) == [fn |-> fn, ret |-> ret]

\* A call of function fn on args that returned ret.
CallWith(fn, args, ret) == [fn |-> fn, args |-> args, ret |-> ret]

Is(b) ==
    /\ m_initialCapital = b.m_initialCapital
    /\ m_cash = b.m_cash
    /\ m_position = b.m_position
    /\ m_slippage = b.m_slippage
    /\ m_latency = b.m_latency
    /\ m_signals = b.m_signals
    /\ m_equity = b.m_equity
    /\ m_trades = b.m_trades
    /\ m_drawdowns = b.m_drawdowns
    /\ m_returns = b.m_returns
    /\ trace = b.trace

\* The object as constructed, reading either the grid of small files, the
\* files of the scenarios of the specification, or files with malformed lines.
Init ==
    /\ \/ /\ fs = "grid"
          /\ \E s \in 0..MaxSlip, L \in GridLatencies :
                Is(Backtester(GridCapital * SlipScale, s, L))
       \/ /\ fs = "scenario"
          /\ \E c \in ScenarioCapitals : Is(Backtester(c * SlipScale, 0, 0))
       \/ /\ fs = "mixed"
          /\ Is(Backtester(GridCapital * SlipScale, 0, 0))
    /\ lastCall = Call("new", TRUE)
    /\ runCount = 0

\* How many more rows the model lets a load bring in: the returns of every
\* run pile up in m_returns, so files are kept short once it is not empty.
Room == IF m_returns = <<>> THEN Len(ScenarioPrices)
        ELSE IF Len(m_returns) < MaxReturns THEN MaxReturns - Len(m_returns) ELSE 0

\* Loaded signals that no run has used yet.  The model loads no file over
\* them: that load leads to the state it leads to from the state before them.
Unused == m_signals # <<>> /\ runCount = 0

loadSignalsFromCSV ==
    \/ /\ lastCall' = Call("load", FALSE)          \* the file cannot be opened
       /\ UNCHANGED <<m_initialCapital, m_cash, m_position, m_slippage, m_latency,
                      m_signals, m_equity, m_trades, m_drawdowns, m_returns, fs,
                      runCount, trace>>
    \/ /\ ~Unused
       /\ \E lines \in Files(fs, Room) :
             /\ Becomes(LoadSignals(Self, lines))
             /\ lastCall' = CallWith("load", lines, m_signals' # <<>>)
             /\ runCount' = 0
             /\ UNCHANGED fs

runBacktest ==
    \/ /\ m_signals = <<>>                         \* "Error: No signals loaded"
       /\ lastCall' = Call("run", TRUE)
       /\ UNCHANGED <<m_initialCapital, m_cash, m_position, m_slippage, m_latency,
                      m_signals, m_equity, m_trades, m_drawdowns, m_returns, fs,
                      runCount, trace>>
    \/ /\ m_signals # <<>>
       /\ runCount < MaxRuns
       /\ Becomes(RunBacktest(Self))
       /\ lastCall' = Call("run", TRUE)
       /\ runCount' = runCount + 1
       /\ UNCHANGED fs

Next == loadSignalsFromCSV \/ runBacktest

Spec == Init /\ [][Next]_vars

----------------------------------------------------------------------------
(* The static functions of PerformanceMetrics, called on return series *)

MaxSeries == 3

\* The doubles nearest to -1/3, 0, 1/10 and 7/8.
GridReturns == {RoundToDouble(x) : x \in {<<-1, 3>>, Zero, <<1, 10>>, <<7, 8>>}}

\* The doubles nearest to 0 and 0.02.
GridRiskFreeRates == {RoundToDouble(x) : x \in {Zero, <<1, 50>>}}

ReturnSeries == UNION {[1..n -> GridReturns] : n \in 0..MaxSeries}

\* The functions are static and keep no state: the model follows one call of
\* one of them per behaviour.
MetricsInit ==
    /\ Is(Backtester(GridCapital * SlipScale, 0, 0))
    /\ fs = "grid"
    /\ lastCall = Call("new", TRUE)
    /\ runCount = 0

SharpeRatioCalled ==
    /\ lastCall.fn = "new"
    /\ \E returns \in ReturnSeries, riskFreeRate \in GridRiskFreeRates :
          lastCall' = CallWith("calculateSharpeRatio",
                                 [returns |-> returns, riskFreeRate |-> riskFreeRate],
                                 calculateSharpeRatio(returns, riskFreeRate))
    /\ UNCHANGED <<m_initialCapital, m_cash, m_position, m_slippage, m_latency,
                   m_signals, m_equity, m_trades, m_drawdowns, m_returns, fs,
                   runCount, trace>>

SortinoRatioCalled ==
    /\ lastCall.fn = "new"
    /\ \E returns \in ReturnSeries, riskFreeRate \in GridRiskFreeRates :
          lastCall' = CallWith("calculateSortinoRatio",
                                 [returns |-> returns, riskFreeRate |-> riskFreeRate],
                                 calculateSortinoRatio(returns, riskFreeRate))
    /\ UNCHANGED <<m_initialCapital, m_cash, m_position, m_slippage, m_latency,
                   m_signals, m_equity, m_trades, m_drawdowns, m_returns, fs,
                   runCount, trace>>

MetricsNext == SharpeRatioCalled \/ SortinoRatioCalled

MetricsSpec == MetricsInit /\ [][MetricsNext]_vars

----------------------------------------------------------------------------
(* TradeSimulator (src/src/cpp/trade_simulator.cpp).  Prices and money as   *)
(* for the Backtester; m_slippage and m_latency are its two members.        *)

\* The notional of every BUY: static_cast<int>(10000.0 / tradePrice).
Notional == 10000

\* The prices of the signals given to simulateTrades: one that 10000 pays
\* for and one that it does not.
SimPrices == {1, 20000}

\* TradeSimulator::calculateBuyPrice, in money
calculateBuyPrice(slippage, basePrice) == basePrice * (SlipScale + slippage)

\* TradeSimulator::calculateSellPrice, in money
calculateSellPrice(slippage, basePrice) == basePrice * (SlipScale - slippage)

\* TradeSimulator::applyLatency on the signal at index i (indices from 1).
applyLatency(latency, signals, i) ==
    IF latency <= 0 \/ signals = <<>> \/ i >= Len(signals) THEN signals[i]
    ELSE [signals[i] EXCEPT
             !.price = signals[Min(i + LatencySteps(latency), Len(signals))].price]

\* One iteration of the loop of simulateTrades; r holds its locals.
SimulateStep(r, slippage, latency, signals, i) ==
    LET effectiveSignal == applyLatency(latency, signals, i)
        changed == effectiveSignal.signal # r.lastSignal
        buy == changed /\ effectiveSignal.signal = 1 /\ r.currentPosition = 0
        sell == changed /\ ~buy /\ effectiveSignal.signal = 0 /\ r.currentPosition > 0
        buyPrice == calculateBuyPrice(slippage, effectiveSignal.price)
        sellPrice == calculateSellPrice(slippage, effectiveSignal.price)
        shares == TruncDiv(Notional * SlipScale, buyPrice)
    IN  [trades |->
             IF buy
             THEN Append(r.trades,
                         [timestamp |-> effectiveSignal.timestamp, action |-> "BUY",
                          shares |-> shares, price |-> buyPrice,
                          value |-> shares * buyPrice])
             ELSE IF sell
             THEN Append(r.trades,
                         [timestamp |-> effectiveSignal.timestamp, action |-> "SELL",
                          shares |-> r.currentPosition, price |-> sellPrice,
                          value |-> r.currentPosition * sellPrice])
             ELSE r.trades,
         currentPosition |-> IF buy THEN shares ELSE IF sell THEN 0 ELSE r.currentPosition,
         lastSignal |-> IF changed THEN effectiveSignal.signal ELSE r.lastSignal]

RECURSIVE SimulateLoop(_, _, _, _, _)
SimulateLoop(r, slippage, latency, signals, i) ==
    IF i > Len(signals) THEN r
    ELSE SimulateLoop(SimulateStep(r, slippage, latency, signals, i),
                      slippage, latency, signals, i + 1)

\* TradeSimulator::simulateTrades
simulateTrades(slippage, latency, signals) ==
    IF signals = <<>> THEN <<>>
    ELSE SimulateLoop([trades |-> <<>>, currentPosition |-> 0, lastSignal |-> 0],
                      slippage, latency, signals, 1).trades

\* The signal sequences given to simulateTrades; a timestamp is an index.
SimSignals ==
    UNION {{[i \in 1..n |-> [timestamp |-> i, price |-> p[i], signal |-> sg[i]]] :
                p \in [1..n -> SimPrices], sg \in [1..n -> GridSignals]} : n \in 0..MaxLen}

\* A TradeSimulator as constructed; the members of the Backtester, which it
\* does not have, are held at empty values.
SimInit ==
    /\ \E s \in 0..MaxSlip, L \in GridLatencies : m_slippage = s /\ m_latency = L
    /\ m_initialCapital = 0 /\ m_cash = 0 /\ m_position = 0
    /\ m_signals = <<>> /\ m_equity = <<>> /\ m_trades = <<>>
    /\ m_drawdowns = <<>> /\ m_returns = <<>> /\ trace = <<>>
    /\ fs = "none"
    /\ lastCall = Call("new", TRUE)
    /\ runCount = 0

\* simulateTrades is const: the model follows one call of it per behaviour.
simulateTradesCalled ==
    /\ lastCall.fn = "new"
    /\ \E signals \in SimSignals :
          lastCall' = CallWith("simulateTrades", signals,
                               simulateTrades(m_slippage, m_latency, signals))
    /\ UNCHANGED <<m_initialCapital, m_cash, m_position, m_slippage, m_latency,
                   m_signals, m_equity, m_trades, m_drawdowns, m_returns, fs,
                   runCount, trace>>

SimNext == simulateTradesCalled

SimSpec == SimInit /\ [][SimNext]_vars

----------------------------------------------------------------------------
(* Properties *)

Money(units) == units * SlipScale

Hundred == <<100, 1>>

\* Record i of the last run bought nothing although it tried to.
FailedBuy(i) == trace[i].buyAttempt /\ trace[i].shares = 0

\* The cash before record i of the last run.
CashBefore(i) == IF i = 1 THEN m_initialCapital ELSE trace[i - 1].cash

\* The high-water mark before record i of the last run.
MarkBefore(i) == IF i = 1 THEN m_initialCapital ELSE trace[i - 1].highWaterMark

\* C1: at every step i of a run the equity recorded is the cash after the step
\* plus the position after the step times the record's own price, and the
\* position is never negative.
C1_EquityIdentity ==
    /\ m_position >= 0
    /\ Len(trace) = Len(m_equity)
    /\ \A i \in 1..Len(m_equity) :
          /\ m_equity[i].equity = trace[i].cash + Money(trace[i].position * m_signals[i].price)
          /\ trace[i].position >= 0

\* A run in which a position was bought at an execution price other than the
\* record's price and then marked at the record's price.
C1_Witness ==
    \E i \in 1..Len(m_equity) :
        /\ trace[i].traded /\ trace[i].position > 0
        /\ trace[i].effectivePrice # Money(m_signals[i].price)

\* C2: the trade log alternates BUY, SELL, BUY, ..., starting with a BUY.
C2_TradesAlternate ==
    \A k \in 1..Len(m_trades) :
        m_trades[k].action = (IF k % 2 = 1 THEN "BUY" ELSE "SELL")

\* A run with a failed buy and at least three trades.
C2_Witness ==
    /\ Len(m_trades) >= 3
    /\ \E i \in 1..Len(trace) : FailedBuy(i)

HighWaterMarkAndDrawdownsInRange ==
    \A i \in 1..Len(m_drawdowns) :
        /\ trace[i].highWaterMark >= MarkBefore(i)
        /\ ~Less(m_drawdowns[i], Zero)
        /\ ~Less(Hundred, m_drawdowns[i])

C4_Idempotent ==
    [][(runCount >= 1 /\ runCount' = runCount + 1)
          => (m_trades' = m_trades /\ m_equity' = m_equity)]_vars

\* Two runs in a row over signals that make a buy and a sell.
C4_Witness == runCount >= 2 /\ Len(m_trades) >= 2

\* C5: after a runBacktest on n > 0 signals the equity path, the drawdown
\* series and the return series have n elements each.
C5_SeriesLengths ==
    runCount >= 1 =>
        /\ Len(m_equity) = Len(m_signals)
        /\ Len(m_drawdowns) = Len(m_signals)
        /\ Len(m_returns) = Len(m_signals)

\* A newly constructed Backtester with the same parameters, after loading
\* the file that gave m_signals and running.
Fresh ==
    RunBacktest([Backtester(m_initialCapital, m_slippage, m_latency)
                    EXCEPT !.m_signals = m_signals])

\* C6: after load(A); runBacktest, getResults returns what it returns on a
\* fresh Backtester after load(A); runBacktest, whatever was loaded and run
\* before.
C6_NoContamination == runCount = 1 => getResults(Self) = getResults(Fresh)

\* The maximum drawdown getResults reports.
ReportedMaxDrawdown == MaxElement(m_drawdowns)

\* C7: calculateMaxDrawdown over the equity values of a run is the
\* maximum drawdown getResults reports.
C7_MaxDrawdownAgrees ==
    m_equity # <<>> => calculateMaxDrawdown(EquityValues(m_equity)) = ReportedMaxDrawdown

ScenarioSignals == <<0, 1, 1, 0, 0>>

IsScenario ==
    /\ m_initialCapital = Money(10000) /\ m_slippage = 0 /\ m_latency = 0
    /\ Len(m_signals) = Len(ScenarioPrices)
    /\ \A i \in 1..Len(m_signals) :
          /\ m_signals[i].price = ScenarioPrices[i]
          /\ m_signals[i].signal = ScenarioSignals[i]
    /\ runCount >= 1

\* C8: capital 10000, no slippage, no latency, prices 100 100 110 110 90 and
\* signals 0 1 1 0 0 give a BUY of 100 shares at 100, then a SELL of 100
\* shares at 110, a final equity of 11000 and a total return of 10 percent.
C8_Scenario ==
    IsScenario =>
        /\ Len(m_trades) = 2
        /\ m_trades[1].action = "BUY" /\ m_trades[1].shares = 100
        /\ m_trades[1].price = Money(100)
        /\ m_trades[2].action = "SELL" /\ m_trades[2].shares = 100
        /\ m_trades[2].price = Money(110)
        /\ getResults(Self).finalEquity = Money(11000)
        /\ getResults(Self).finalReturn = <<10, 1>>

C8_Witness == IsScenario

\* What a failed buy at record i leaves behind: no trade, cash and position
\* as before, currentSignal 1.
FailedBuyLeaves(i) ==
    /\ ~trace[i].traded
    /\ \A k \in 1..Len(m_trades) : m_trades[k].timestamp # m_signals[i].timestamp
    /\ trace[i].cash = CashBefore(i)
    /\ trace[i].position = 0
    /\ trace[i].currentSignal = 1

\* With capital 50 and every price at 90 or more nothing is bought and the
\* equity path is flat at 50.
FlatAtFifty ==
    (m_initialCapital = Money(50) /\ m_slippage = 0 /\ m_latency = 0) =>
        /\ runCount >= 1 => m_trades = <<>>
        /\ \A i \in 1..Len(m_equity) : m_equity[i].equity = Money(50)

\* C9 as stated: after a failed buy no buy is attempted until the signal has
\* gone back to 0 and to 1 again.
C9_RetryOnlyAfterZero ==
    /\ FlatAtFifty
    /\ \A i \in 1..Len(trace) :
          FailedBuy(i) =>
              /\ FailedBuyLeaves(i)
              /\ \A j \in (i + 1)..Len(trace) :
                    trace[j].buyAttempt =>
                        \E k \in (i + 1)..(j - 1) : m_signals[k].signal = 0

\* C9, amended: after a failed buy no buy is attempted until the signal has
\* changed to a value other than 1 (0 or any other integer) and to 1 again.
C9_RetryOnlyAfterChange ==
    /\ FlatAtFifty
    /\ \A i \in 1..Len(trace) :
          FailedBuy(i) =>
              /\ FailedBuyLeaves(i)
              /\ \A j \in (i + 1)..Len(trace) :
                    trace[j].buyAttempt =>
                        \E k \in (i + 1)..(j - 1) : m_signals[k].signal # 1

\* A failed buy followed by a record that still signals 1 at a price the
\* cash would pay for.
C9_Witness ==
    \E i \in 1..Len(trace) :
        /\ FailedBuy(i)
        /\ \E j \in (i + 1)..Len(trace) :
              /\ m_signals[j].signal = 1 /\ ~trace[j].changed
              /\ trace[j].cash >=
                    EffectivePrice(m_signals[PriceIndex(Len(m_signals), m_latency, j)].price,
                                   1, m_slippage)

\* C10: while the equity path is empty getResults returns zeros, whatever
\* earlier runs left in the trade log and the return series.
C10_EmptyResults ==
    m_equity = <<>> =>
        /\ getResults(Self).finalEquity = 0
        /\ getResults(Self).finalReturn = Zero
        /\ getResults(Self).maxDrawdown = Zero
        /\ getResults(Self).sharpeRatio = ZeroSharpe
        /\ getResults(Self).totalTrades = 0

\* An empty equity path over a trade log and a return series that earlier
\* runs filled.
C10_Witness == m_equity = <<>> /\ m_trades # <<>> /\ m_returns # <<>>

\* C11 as stated: after a runBacktest called while m_signals is empty the
\* trade log, the equity path, the drawdown series and the return series are
\* all empty.
C11_RunWithoutData ==
    (lastCall = Call("run", TRUE) /\ m_signals = <<>>) =>
        /\ m_trades = <<>>
        /\ m_equity = <<>>
        /\ m_drawdowns = <<>>
        /\ m_returns = <<>>

\* The prices of m_signals never fall from one record to the next.
RisingPrices ==
    \A i \in 1..(Len(m_signals) - 1) : m_signals[i].price <= m_signals[i + 1].price

\* Every record of m_signals holds signal 1.
PersistentLong == \A i \in 1..Len(m_signals) : m_signals[i].signal = 1

\* A run over rising prices with a single persistent long signal.
RisingLongRun == runCount >= 1 /\ RisingPrices /\ PersistentLong

\* C12 as stated: after a run over rising prices with signal 1 on every
\* record the reported maximum drawdown is 0, for every slippage s >= 0 and
\* every latency L >= 0.
C12_AnySlippageAndLatency == RisingLongRun => ReportedMaxDrawdown = Zero

\* What calculateMaxDrawdown gives on the equity path of such a run.
RisingLongRunAnalyzed ==
    RisingLongRun => calculateMaxDrawdown(EquityValues(m_equity)) = Zero

\* Every element of xs equals the first.
AllEqual(xs) == \A k \in 1..Len(xs) : xs[k] = xs[1]

\* C13 as stated: on an empty return series or one whose elements are all
\* equal calculateSharpeRatio and the Sharpe ratio of getResults are 0, on a
\* return series with no negative element calculateSortinoRatio is 0, and in
\* every other case the divisor is not zero.
C13_DegenerateRatios ==
    /\ lastCall.fn = "calculateSharpeRatio" =>
          IF AllEqual(lastCall.args.returns)
          THEN /\ lastCall.ret = ZeroSharpe
               /\ lastCall.args.returns # <<>> =>
                     SharpeOfReturns(lastCall.args.returns) = ZeroSharpe
          ELSE SharpeDivisorSquared(lastCall.args.returns) # Zero
    /\ lastCall.fn = "calculateSortinoRatio" =>
          IF Downside(lastCall.args.returns) = <<>>
          THEN lastCall.ret = ZeroSharpe
          ELSE SortinoDivisorSquared(lastCall.args.returns) # Zero

\* The last call was a loadSignalsFromCSV that opened its file.
Loaded == lastCall.fn = "load" /\ "args" \in DOMAIN lastCall

\* The lines after the header of the file the last call read.
RowsRead == SubSeq(lastCall.args, 2, Len(lastCall.args))

\* What loadSignalsFromCSV returned and how m_signals lies in the file it read:
\* the timestamps are those of lines after the header, in file order.
LoadedInFileOrder ==
    /\ lastCall.ret \in BOOLEAN
    /\ lastCall.ret = (m_signals # <<>>)
    /\ \A k \in 1..Len(m_signals) :
          /\ m_signals[k].timestamp \in 2..Len(lastCall.args)
          /\ k > 1 => m_signals[k - 1].timestamp < m_signals[k].timestamp

\* m_signals holds the prices and signals of rows, one signal per row.
SignalsAre(rows) ==
    /\ Len(m_signals) = Len(rows)
    /\ \A k \in 1..Len(rows) :
          /\ m_signals[k].price = rows[k].price
          /\ m_signals[k].signal = rows[k].signal
          /\ lastCall.args[m_signals[k].timestamp] = rows[k]

\* C14 as stated: a loadSignalsFromCSV that opens its file skips the header,
\* appends one signal per row whose price and signal are numbers, in file
\* order, skips every other row and goes on, lets no exception escape and
\* returns true exactly when m_signals is then not empty; one that cannot
\* open its file returns false.
C14_LoadSkipsMalformedRows ==
    /\ Loaded =>
          /\ LoadedInFileOrder
          /\ SignalsAre(SelectSeq(RowsRead, LAMBDA l : l.numeric))
    /\ (lastCall.fn = "load" /\ ~Loaded) => lastCall.ret = FALSE

\* The same with the rows on which std::stod and std::stoi do not throw.
LoadSkipsThrowingRows ==
    Loaded =>
        /\ LoadedInFileOrder
        /\ SignalsAre(SelectSeq(RowsRead, LAMBDA l : l.ok))

\* A loadSignalsFromCSV that cannot open its file changes nothing.
UnopenedLoadChangesNothing ==
    [][lastCall' = Call("load", FALSE) =>
          UNCHANGED <<m_initialCapital, m_cash, m_position, m_slippage, m_latency,
                      m_signals, m_equity, m_trades, m_drawdowns, m_returns>>]_vars

\* floor(L / 0.1) for the latency L = m_latency / 20 seconds.
LatencyRecords == m_latency \div 2

\* The index the claim gives for a transition at index i (indices from 1).
ClaimedPriceIndex(i) == Min(i + LatencyRecords, Len(m_signals))

\* (1 + s) for a transition to signal 1, (1 - s) for any other, in 1/SlipScale.
SlippageFactor(sig) == IF sig = 1 THEN SlipScale + m_slippage ELSE SlipScale - m_slippage

\* C15: the base price of a transition at index i of n records is the price
\* at index min(i + floor(L / 0.1), n - 1), an index within [i, n - 1], and
\* the equity of step i is marked at the price of record i.
C15_LatencyLookup ==
    \A i \in 1..Len(trace) :
        /\ trace[i].changed =>
              /\ trace[i].priceIndex = ClaimedPriceIndex(i)
              /\ trace[i].priceIndex \in i..Len(m_signals)
              /\ trace[i].effectivePrice =
                    m_signals[ClaimedPriceIndex(i)].price * SlippageFactor(m_signals[i].signal)
              /\ trace[i].traded =>
                    \E k \in 1..Len(m_trades) :
                        /\ m_trades[k].timestamp = m_signals[i].timestamp
                        /\ m_trades[k].price = trace[i].effectivePrice
        /\ m_equity[i].equity =
              trace[i].cash + Money(trace[i].position * m_signals[i].price)

\* A run with a trade at the price of a later record that differs from its
\* own, a position marked at its own price, and a transition whose lookup is
\* clamped to the last record.
C15_Witness ==
    /\ \E i \in 1..Len(trace) :
          /\ trace[i].traded /\ trace[i].position > 0
          /\ trace[i].priceIndex > i
          /\ m_signals[trace[i].priceIndex].price # m_signals[i].price
    /\ \E j \in 1..Len(trace) :
          trace[j].changed /\ j + LatencyRecords > Len(m_signals)

\* The signal of the record before record i, 0 before the first.
PreviousSignal(i) == IF i = 1 THEN 0 ELSE m_signals[i - 1].signal

\* The position before record i of the last run.
PositionBefore(i) == IF i = 1 THEN 0 ELSE trace[i - 1].position

\* The trades of the log that carry the timestamp of record i.
TradesAt(i) == {k \in 1..Len(m_trades) : m_trades[k].timestamp = m_signals[i].timestamp}

\* C16: after a runBacktest every trade carries the timestamp of a record whose signal differs
\* from the signal of the record before it (0 before the first), no record
\* has more than one trade, and a record whose signal equals the previous
\* one leaves cash and position as they were.
C16_TradesOnlyAtTransitions ==
    /\ runCount >= 1 => \A k \in 1..Len(m_trades) :
          \E i \in 1..Len(m_signals) :
              /\ m_trades[k].timestamp = m_signals[i].timestamp
              /\ m_signals[i].signal # PreviousSignal(i)
    /\ \A i \in 1..Len(trace) :
          /\ Cardinality(TradesAt(i)) <= 1
          /\ m_signals[i].signal = PreviousSignal(i) =>
                /\ trace[i].cash = CashBefore(i)
                /\ trace[i].position = PositionBefore(i)
                /\ TradesAt(i) = {}

\* A run with a failed buy, then a record with the same signal 1 whose price
\* the cash would pay for, and a trade elsewhere.
C16_Witness ==
    /\ m_trades # <<>>
    /\ \E i \in 1..Len(trace) :
          /\ FailedBuy(i)
          /\ i < Len(trace) /\ m_signals[i + 1].signal = 1
          /\ trace[i + 1].cash >=
                EffectivePrice(m_signals[PriceIndex(Len(m_signals), m_latency, i + 1)].price,
                               1, m_slippage)

\* C17: every SELL of a run has the share count of the BUY just before it
\* in the log and the notional shares * execution price, adds exactly that
\* notional to the cash and leaves position 0; every BUY has
\* shares = floor(cash before / effective price) > 0.
C17_SellLiquidates ==
    \A i \in 1..Len(trace) :
        /\ trace[i].traded <=> TradesAt(i) # {}
        /\ \A k \in TradesAt(i) :
             /\ m_trades[k].price = trace[i].effectivePrice
             /\ m_trades[k].value = m_trades[k].shares * m_trades[k].price
             /\ m_trades[k].action = "SELL" =>
                   /\ k > 1 /\ m_trades[k - 1].action = "BUY"
                   /\ m_trades[k].shares = m_trades[k - 1].shares
                   /\ m_trades[k].shares = PositionBefore(i)
                   /\ trace[i].cash = CashBefore(i) + m_trades[k].value
                   /\ trace[i].position = 0
             /\ m_trades[k].action = "BUY" =>
                   /\ m_trades[k].shares > 0
                   /\ m_trades[k].shares * m_trades[k].price <= CashBefore(i)
                   /\ CashBefore(i) < (m_trades[k].shares + 1) * m_trades[k].price
                   /\ trace[i].position = m_trades[k].shares

\* A run that sold, with slippage, a position bought with cash left over.
C17_Witness ==
    /\ m_slippage > 0
    /\ \E i \in 1..Len(trace) :
          /\ trace[i].traded /\ trace[i].position = 0
          /\ CashBefore(i) > 0
          /\ TradesAt(i) # {}

ConstantPrice == \A i \in 1..Len(m_signals) : m_signals[i].price = m_signals[1].price

\* C19: with the same price on every record and latency 0 the equity of every
\* step of a run is at most the initial capital, for every slippage s >= 0 and
\* every signal sequence, and equals the initial capital when s = 0.
C19_SlippageAgainstTrader ==
    (runCount >= 1 /\ ConstantPrice /\ m_latency = 0) =>
        \A i \in 1..Len(m_equity) :
            /\ m_equity[i].equity <= m_initialCapital
            /\ m_slippage = 0 => m_equity[i].equity = m_initialCapital

\* A run at a constant price with slippage, without latency, that bought and
\* sold and ended below the initial capital.
C19_Witness ==
    /\ runCount >= 1 /\ ConstantPrice /\ m_latency = 0 /\ m_slippage > 0
    /\ Len(m_trades) >= 2
    /\ m_equity[Len(m_equity)].equity < m_initialCapital

\* C20: the trades simulateTrades returns alternate BUY, SELL, BUY, ...,
\* starting with a BUY, also when a BUY is of floor(10000 / trade price) = 0
\* shares.
C20_SimulatedTradesAlternate ==
    lastCall.fn = "simulateTrades" =>
        \A k \in 1..Len(lastCall.ret) :
            lastCall.ret[k].action = (IF k % 2 = 1 THEN "BUY" ELSE "SELL")

\* The same for the calls in which every BUY is of at least one share.
SimulatedTradesAlternateWhenAffordable ==
    (lastCall.fn = "simulateTrades"
        /\ \A k \in 1..Len(lastCall.ret) :
              lastCall.ret[k].action = "BUY" => lastCall.ret[k].shares > 0) =>
        \A k \in 1..Len(lastCall.ret) :
            lastCall.ret[k].action = (IF k % 2 = 1 THEN "BUY" ELSE "SELL")

\* The (timestamp, side) pairs of a sequence of trades.
TimestampsAndSides(trades) ==
    [k \in 1..Len(trades) |-> <<trades[k].timestamp, trades[k].action>>]

\* What TradeSimulator(m_slippage, m_latency).simulateTrades returns for
\* the signals of the Backtester.
SimulatedTrades == simulateTrades(m_slippage, m_latency, m_signals)

\* runBacktest has just run over m_signals: m_trades is the log of that run.
JustRun == lastCall.fn = "run" /\ m_signals # <<>> /\ runCount >= 1

\* C21: after a runBacktest the (timestamp, side) pairs of its trade log are
\* those of the trades simulateTrades returns for the same signals, slippage
\* and latency, and the k-th trades of the two have the same price, that
\* is the same base price under the same slippage.
C21_PathsAgree ==
    JustRun =>
        /\ TimestampsAndSides(SimulatedTrades) = TimestampsAndSides(m_trades)
        /\ \A k \in 1..Len(m_trades) : SimulatedTrades[k].price = m_trades[k].price

\* The two paths look up the same base price at every record.
PathsAgreeOnBasePrice ==
    JustRun => \A i \in 1..Len(m_signals) :
        applyLatency(m_latency, m_signals, i).price
            = m_signals[PriceIndex(Len(m_signals), m_latency, i)].price

\* The agreement of C21 for the runs in which every buy attempt of
\* runBacktest bought at least one share and every BUY of simulateTrades is
\* of at least one share.
PathsAgreeWhenEveryBuyFills ==
    (JustRun
        /\ \A i \in 1..Len(trace) : trace[i].buyAttempt => trace[i].shares > 0
        /\ \A k \in 1..Len(SimulatedTrades) :
              SimulatedTrades[k].action = "BUY" => SimulatedTrades[k].shares > 0) =>
        /\ TimestampsAndSides(SimulatedTrades) = TimestampsAndSides(m_trades)
        /\ \A k \in 1..Len(m_trades) : SimulatedTrades[k].price = m_trades[k].price

====
